---------------------------- MODULE Spec2Model ----------------------------
(***************************************************************************)
(* Model of the Spin operator of package correlationvector (spin.go).      *)
(*                                                                         *)
(* A uint64 / int64 is a sequence of 8 bytes, most significant first, so   *)
(* that shifts, masks and wrap-around keep their 64-bit width.  A Go       *)
(* string is a sequence of one-character strings.                          *)
(***************************************************************************)
EXTENDS Integers, Sequences, FiniteSets, TLC

-----------------------------------------------------------------------------
(* 64-bit machine words                                                    *)

Zero64 == <<0, 0, 0, 0, 0, 0, 0, 0>>
One64  == <<0, 0, 0, 0, 0, 0, 0, 1>>

Byte == 0..255

\* the word whose byte i is F(i)
Word(F(_)) == <<F(1), F(2), F(3), F(4), F(5), F(6), F(7), F(8)>>

RECURSIVE AndByte(_, _)
AndByte(a, b) ==
    IF a = 0 \/ b = 0 THEN 0
    ELSE IF a = 255 THEN b
    ELSE IF b = 255 THEN a
    ELSE (a % 2) * (b % 2) + 2 * AndByte(a \div 2, b \div 2)

RECURSIVE OrByte(_, _)
OrByte(a, b) ==
    IF a = 0 THEN b
    ELSE IF b = 0 THEN a
    ELSE (IF (a % 2) + (b % 2) > 0 THEN 1 ELSE 0) + 2 * OrByte(a \div 2, b \div 2)

\* x & y on uint64
And64(x, y) == LET f(i) == AndByte(x[i], y[i]) IN Word(f)

\* x | y on uint64
Or64(x, y) == LET f(i) == OrByte(x[i], y[i]) IN Word(f)

\* uint64(b) for a byte b
U64OfByte(b) == <<0, 0, 0, 0, 0, 0, 0, b>>

\* x << n on uint64 (Go: a shift count >= 64 yields 0, no panic)
Shl64(x, n) ==
    IF n >= 64 THEN Zero64
    ELSE LET k == n \div 8
             r == n % 8
             src(j) == IF j <= 8 THEN x[j] ELSE 0
             f(i) == ((src(i + k) * (2 ^ r)) % 256) + (src(i + k + 1) \div (2 ^ (8 - r)))
         IN  Word(f)

\* x >> n with the vacated high bits filled from the byte fill (0 or 255)
ShrFill(x, n, fill) ==
    IF n >= 64 THEN <<fill, fill, fill, fill, fill, fill, fill, fill>>
    ELSE LET k == n \div 8
             r == n % 8
             src(j) == IF j < 1 THEN fill ELSE x[j]
             f(i) == ((src(i - k - 1) * (2 ^ (8 - r))) % 256) + (src(i - k) \div (2 ^ r))
         IN  Word(f)

\* x >> n on uint64 (logical)
Shr64(x, n) == ShrFill(x, n, 0)

\* x >> n on int64 (arithmetic: the sign bit is replicated)
Sar64(x, n) == ShrFill(x, n, IF x[1] >= 128 THEN 255 ELSE 0)

RECURSIVE AddCarry(_, _, _)
\* x + carry, wrapping at 2^64; i is the byte being updated (8 = least significant)
AddCarry(x, i, carry) ==
    IF i = 0 \/ carry = 0 THEN x
    ELSE LET s == x[i] + carry
         IN  AddCarry([x EXCEPT ![i] = s % 256], i - 1, s \div 256)

RECURSIVE SubBorrow(_, _, _)
\* x - borrow, wrapping at 2^64
SubBorrow(x, i, borrow) ==
    IF i = 0 \/ borrow = 0 THEN x
    ELSE LET d == x[i] - borrow
         IN  SubBorrow([x EXCEPT ![i] = d % 256], i - 1, IF d < 0 THEN 1 ELSE 0)

\* x - 1 on uint64 (0 - 1 wraps to all ones)
Dec64(x) == SubBorrow(x, 8, 1)

\* -x in two's complement
Neg64(x) == LET f(i) == 255 - x[i] IN AddCarry(Word(f), 8, 1)

\* int(x) for a uint64 x, where int is bits wide (32 or 64): the low bits are
\* kept and reinterpreted as signed; the result is given sign-extended to 64 bits
IntOfU64(x, bits) ==
    IF bits = 64 THEN x
    ELSE LET fill == IF x[5] >= 128 THEN 255 ELSE 0
         IN  <<fill, fill, fill, fill, x[5], x[6], x[7], x[8]>>

-----------------------------------------------------------------------------
(* strconv.Itoa                                                            *)

DigitChars == <<"0", "1", "2", "3", "4", "5", "6", "7", "8", "9">>

\* a 64-bit magnitude as three limbs of 16, 24 and 24 bits, most significant first
LimbsOf(x) ==
    <<x[1] * 256 + x[2],
      (x[3] * 256 + x[4]) * 256 + x[5],
      (x[6] * 256 + x[7]) * 256 + x[8]>>

\* long division of a magnitude in limbs by 10: quotient limbs and remainder
DivMod10(l) ==
    LET c1 == l[1]
        c2 == (c1 % 10) * 16777216 + l[2]
        c3 == (c2 % 10) * 16777216 + l[3]
    IN  [q |-> <<c1 \div 10, c2 \div 10, c3 \div 10>>, r |-> c3 % 10]

RECURSIVE FormatDigits(_)
\* the decimal digits of a magnitude in limbs, most significant first; none for 0
FormatDigits(l) ==
    IF l = <<0, 0, 0>> THEN <<>>
    ELSE LET qr == DivMod10(l)
         IN  Append(FormatDigits(qr.q), DigitChars[qr.r + 1])

\* decimal form of an unsigned magnitude
FormatUint(x) == IF x = Zero64 THEN <<"0">> ELSE FormatDigits(LimbsOf(x))

\* strconv.Itoa(i) for a signed i given as its 64-bit two's complement pattern
Itoa(i) ==
    IF i[1] >= 128 THEN <<"-">> \o FormatUint(Neg64(i)) ELSE FormatUint(i)

-----------------------------------------------------------------------------
(* spin.go: parameters                                                     *)

CoarseInterval == 0
FineInterval == 1

NoPeriodicity == 0
ShortPeriodicity == 1
MediumPeriodicity == 2
LongPeriodicity == 3

NoEntropy == 0
OneEntropy == 1
TwoEntropy == 2
ThreeEntropy == 3
FourEntropy == 4

\* Interval values a caller can pass: the two named ones and one that is neither
Intervals == {CoarseInterval, FineInterval, FineInterval + 1}
Periodicities == {NoPeriodicity, ShortPeriodicity, MediumPeriodicity, LongPeriodicity}
Entropies == NoEntropy..FourEntropy

\* the valid values of type SpinParameters
SpinParameters == [Interval : Intervals, Periodicity : Periodicities, Entropy : Entropies]

\* var defaultParameters = SpinParameters{CoarseInterval, ShortPeriodicity, TwoEntropy}
DefaultParametersInit ==
    [Interval |-> CoarseInterval, Periodicity |-> ShortPeriodicity, Entropy |-> TwoEntropy]

\* tickBitsToDrop with the default case falling to the Fine count
tickBitsToDropDefaultFine(sp) ==
    CASE sp.Interval = CoarseInterval -> 24
      [] sp.Interval = FineInterval   -> 16
      [] OTHER                        -> 16

\* func (sp *SpinParameters) tickBitsToDrop() uint
tickBitsToDrop(sp) ==
    CASE sp.Interval = CoarseInterval -> 24
      [] sp.Interval = FineInterval   -> 16
      [] OTHER                        -> 24

\* func (sp *SpinParameters) totalBits() uint
totalBits(sp) ==
    LET counterBits ==
            CASE sp.Periodicity = ShortPeriodicity  -> 16
              [] sp.Periodicity = MediumPeriodicity -> 24
              [] sp.Periodicity = LongPeriodicity   -> 32
              [] OTHER                              -> 0
    IN  counterBits + sp.Entropy * 8

-----------------------------------------------------------------------------
(* spin.go: the value computation of SpinWithParameters                    *)

RECURSIVE PackLoopReversed(_, _, _)
\* the loop taking the entropy bytes last drawn first
PackLoopReversed(value, entropy, i) ==
    IF i > Len(entropy) THEN value
    ELSE PackLoopReversed(Or64(Shl64(value, 8), U64OfByte(entropy[Len(entropy) + 1 - i])),
                          entropy, i + 1)

RECURSIVE PackLoop(_, _, _)
\* for i := 0; i < int(parameters.Entropy); i++ { value = (value << 8) | uint64(entropy[i]) }
\* (i counts from 1 here: entropy is a 1-based sequence)
PackLoop(value, entropy, i) ==
    IF i > Len(entropy) THEN value
    ELSE PackLoop(Or64(Shl64(value, 8), U64OfByte(entropy[i])), entropy, i + 1)

\* value := uint64(ticks >> parameters.tickBitsToDrop()), then the loop
PackValue(ticks, entropy, sp) ==
    PackLoop(Sar64(ticks, tickBitsToDrop(sp)), entropy, 1)

\* the mask without the totalBits == 64 case, on a shift that takes its count
\* modulo 64: 1 << 64 is then 1 and the mask 0
MaskOfShiftWraps(sp) == Dec64(Shl64(One64, totalBits(sp) % 64))

\* mask := uint64(1) << totalBits; if totalBits == 64 { mask = 0 }; mask -= 1
MaskOf(sp) ==
    LET shifted == Shl64(One64, totalBits(sp))
        mask    == IF totalBits(sp) = 64 THEN Zero64 ELSE shifted
    IN  Dec64(mask)

\* value &= mask
MaskedValue(ticks, entropy, sp) == And64(PackValue(ticks, entropy, sp), MaskOf(sp))

\* the formatting with the split taken at totalBits >= 32
FormatValueSplitAt32(value, sp, bits) ==
    LET s == Itoa(IntOfU64(value, bits))
    IN  IF totalBits(sp) >= 32
        THEN Itoa(IntOfU64(Shr64(value, 32), bits)) \o <<".">> \o s
        ELSE s

\* s := strconv.Itoa(int(value)); if totalBits > 32 { s = Itoa(int(value>>32)) + "." + s }
\* bits is the width of int in the build
FormatValue(value, sp, bits) ==
    LET s == Itoa(IntOfU64(value, bits))
    IN  IF totalBits(sp) > 32
        THEN Itoa(IntOfU64(Shr64(value, 32), bits)) \o <<".">> \o s
        ELSE s

-----------------------------------------------------------------------------
(* Collaborators of spin.go defined elsewhere in the package               *)

Nil == "nil"

\* base vectors the callers pass
BaseOk        == <<"a", "b", "c", ".", "1">>
BaseInvalid   == <<"a", "b", "!", ".", "1">>
BaseNoVersion == <<"a", "b", "c">>
Bases == {BaseOk, BaseInvalid, BaseNoVersion}

\* inferVersion(string) -> Version | Error
inferVersion(cv) ==
    IF cv \in {BaseOk, BaseInvalid}
    THEN [version |-> 1, err |-> Nil]
    ELSE [version |-> 0, err |-> "VersionInferenceError"]

\* validate(string, Version) -> Error | nil
validate(cv, version) == IF cv = BaseOk THEN Nil ELSE "ValidationError"

\* newCorrelationVector(string, counter, version) -> *CorrelationVector
newCorrelationVector(str, counter, version) ==
    [str |-> str, counter |-> counter, version |-> version]

-----------------------------------------------------------------------------
(* The program: goroutines calling Spin and SpinWithParameters             *)

\* calls made in one run of the model
MaxCalls == 2

\* goroutines that call into the package
Procs == {1, 2}

\* tick counts (time.Now().UnixNano() / 100, an int64) the clock can show:
\* 5 << 24; a date whose bits 47 and up are set; a date before 1970
TicksShifted5 == <<0, 0, 0, 0, 5, 0, 0, 0>>
TicksLate     == <<0, 61, 200, 17, 129, 7, 33, 9>>
TicksNegative == <<255, 255, 255, 254, 3, 130, 1, 0>>
Ticks == {TicksShifted5, TicksLate, TicksNegative}

\* bytes the random source can deliver
EntropyBytes == {1, 2}

VARIABLES
    intBits,                                  \* width of int in this build: 32 or 64
    ValidateCorrelationVectorDuringCreation,  \* the package's global flag
    defaultParameters,                        \* the package variable of spin.go
    randPos,                                  \* state of the global random source: bytes drawn so far
    calls,                                    \* calls started so far
    frame                                     \* per goroutine: the activation of SpinWithParameters

vars == <<intBits, ValidateCorrelationVectorDuringCreation, defaultParameters,
          randPos, calls, frame>>

\* a goroutine that is not inside a call
IdleFrame ==
    [pc |-> "idle",
     viaSpin |-> FALSE,              \* entered through Spin
     correlationVector |-> <<>>,     \* argument
     parameters |-> "default",       \* argument: a pointer, to defaultParameters or to the caller's struct
     callerParameters |-> DefaultParametersInit,   \* the caller's struct
     version |-> 0, err |-> Nil,
     entropy |-> <<>>, ticks |-> Zero64, value |-> Zero64, mask |-> Zero64, s |-> <<>>,
     retVector |-> <<>>,             \* returned *CorrelationVector: <<>> is nil
     retErr |-> Nil,                 \* returned error
     \* what the call has done so far
     flagRead |-> <<>>,              \* the value of the flag it read, if it read it
     validated |-> FALSE,            \* it invoked validate
     drawn |-> 0,                    \* bytes it drew from the random source
     clockRead |-> FALSE,            \* it read the clock
     built |-> FALSE,                \* it called newCorrelationVector
     randPos0 |-> 0,                 \* state of the random source when the call began
     flag0 |-> FALSE]                \* value of the global flag when the call began

\* *parameters as goroutine self sees it
Deref(self) ==
    IF frame[self].parameters = "default" THEN defaultParameters
    ELSE frame[self].callerParameters

Init ==
    /\ intBits \in {32, 64}
    /\ ValidateCorrelationVectorDuringCreation \in BOOLEAN
    /\ defaultParameters = DefaultParametersInit
    /\ randPos = 0
    /\ calls = 0
    /\ frame = [p \in Procs |-> IdleFrame]

\* the application sets the global flag, between calls
SetValidate(b) ==
    /\ \A p \in Procs : frame[p].pc = "idle"
    /\ b # ValidateCorrelationVectorDuringCreation
    /\ ValidateCorrelationVectorDuringCreation' = b
    /\ UNCHANGED <<intBits, defaultParameters, randPos, calls, frame>>

\* Spin(correlationVector): return SpinWithParameters(correlationVector, &defaultParameters)
Spin(self, cv) ==
    /\ frame[self].pc = "idle"
    /\ calls < MaxCalls
    /\ calls' = calls + 1
    /\ frame' = [frame EXCEPT ![self] =
                    [IdleFrame EXCEPT !.pc = "infer", !.viaSpin = TRUE,
                                      !.correlationVector = cv,
                                      !.parameters = "default",
                                      !.randPos0 = randPos,
                                      !.flag0 = ValidateCorrelationVectorDuringCreation]]
    /\ UNCHANGED <<intBits, ValidateCorrelationVectorDuringCreation, defaultParameters, randPos>>

\* SpinWithParameters keeping the caller's struct in the package variable
SpinWithParametersStoringDefault(self, cv, p) ==
    /\ frame[self].pc = "idle"
    /\ calls < MaxCalls
    /\ calls' = calls + 1
    /\ defaultParameters' = p
    /\ frame' = [frame EXCEPT ![self] =
                    [IdleFrame EXCEPT !.pc = "infer",
                                      !.correlationVector = cv,
                                      !.parameters = "caller",
                                      !.callerParameters = p,
                                      !.randPos0 = randPos,
                                      !.flag0 = ValidateCorrelationVectorDuringCreation]]
    /\ UNCHANGED <<intBits, ValidateCorrelationVectorDuringCreation, randPos>>

\* a caller enters SpinWithParameters(correlationVector, &p) with its own struct p
SpinWithParameters(self, cv, p) ==
    /\ frame[self].pc = "idle"
    /\ calls < MaxCalls
    /\ calls' = calls + 1
    /\ frame' = [frame EXCEPT ![self] =
                    [IdleFrame EXCEPT !.pc = "infer",
                                      !.correlationVector = cv,
                                      !.parameters = "caller",
                                      !.callerParameters = p,
                                      !.randPos0 = randPos,
                                      !.flag0 = ValidateCorrelationVectorDuringCreation]]
    /\ UNCHANGED <<intBits, ValidateCorrelationVectorDuringCreation, defaultParameters, randPos>>

\* the version check without its return: the error is kept and the call goes on
InferVersionNoReturn(self) ==
    /\ frame[self].pc = "infer"
    /\ LET r == inferVersion(frame[self].correlationVector)
       IN  frame' = [frame EXCEPT ![self] =
                [@ EXCEPT !.pc = "validate", !.version = r.version, !.err = r.err]]
    /\ UNCHANGED <<intBits, ValidateCorrelationVectorDuringCreation, defaultParameters,
                   randPos, calls>>

\* version, err := inferVersion(correlationVector); if err != nil { return nil, err }
InferVersion(self) ==
    /\ frame[self].pc = "infer"
    /\ LET r == inferVersion(frame[self].correlationVector)
       IN  frame' = [frame EXCEPT ![self] =
                IF r.err # Nil
                THEN [@ EXCEPT !.pc = "done", !.err = r.err,
                               !.retVector = <<>>, !.retErr = r.err]
                ELSE [@ EXCEPT !.pc = "validate", !.version = r.version, !.err = r.err]]
    /\ UNCHANGED <<intBits, ValidateCorrelationVectorDuringCreation, defaultParameters,
                   randPos, calls>>

\* the validation done whatever the flag says
ValidateIgnoringFlag(self) ==
    /\ frame[self].pc = "validate"
    /\ LET f == frame[self]
           flag == ValidateCorrelationVectorDuringCreation
           e == validate(f.correlationVector, f.version)
       IN  frame' = [frame EXCEPT ![self] =
                IF e # Nil
                THEN [@ EXCEPT !.pc = "done", !.flagRead = <<flag>>, !.validated = TRUE,
                               !.err = e, !.retVector = <<>>, !.retErr = e]
                ELSE [@ EXCEPT !.pc = "rand", !.flagRead = <<flag>>, !.validated = TRUE,
                               !.err = e]]
    /\ UNCHANGED <<intBits, ValidateCorrelationVectorDuringCreation, defaultParameters,
                   randPos, calls>>

\* if ValidateCorrelationVectorDuringCreation {
\*     if err = validate(correlationVector, version); err != nil { return nil, err } }
Validate(self) ==
    /\ frame[self].pc = "validate"
    /\ LET f == frame[self]
           flag == ValidateCorrelationVectorDuringCreation
           e == validate(f.correlationVector, f.version)
       IN  frame' = [frame EXCEPT ![self] =
                IF flag
                THEN IF e # Nil
                     THEN [@ EXCEPT !.pc = "done", !.flagRead = <<flag>>, !.validated = TRUE,
                                    !.err = e, !.retVector = <<>>, !.retErr = e]
                     ELSE [@ EXCEPT !.pc = "rand", !.flagRead = <<flag>>, !.validated = TRUE,
                                    !.err = e]
                ELSE [@ EXCEPT !.pc = "rand", !.flagRead = <<flag>>]]
    /\ UNCHANGED <<intBits, ValidateCorrelationVectorDuringCreation, defaultParameters,
                   randPos, calls>>

\* entropy := make([]byte, int(parameters.Entropy)); rand.Read(entropy)
\* bytes: the values the random source can deliver
ReadEntropy(self, bytes) ==
    /\ frame[self].pc = "rand"
    /\ LET n == Deref(self).Entropy
       IN  \E e \in [1..n -> bytes] :
              /\ frame' = [frame EXCEPT ![self] =
                              [@ EXCEPT !.pc = "clock", !.entropy = e, !.drawn = @ + n]]
              /\ randPos' = randPos + n
    /\ UNCHANGED <<intBits, ValidateCorrelationVectorDuringCreation, defaultParameters, calls>>

\* ticks := time.Now().UnixNano() / 100
ReadClock(self, now) ==
    /\ frame[self].pc = "clock"
    /\ \E t \in now :
          frame' = [frame EXCEPT ![self] =
                       [@ EXCEPT !.pc = "pack", !.ticks = t, !.clockRead = TRUE]]
    /\ UNCHANGED <<intBits, ValidateCorrelationVectorDuringCreation, defaultParameters,
                   randPos, calls>>

\* the packing with a package-level counter mixed into the value
PackWithSharedCounter(self) ==
    /\ frame[self].pc = "pack"
    /\ LET f     == frame[self]
           sp    == Deref(self)
           mask  == MaskOf(sp)
           value == Or64(MaskedValue(f.ticks, f.entropy, sp), U64OfByte(randPos))
           s     == FormatValue(value, sp, intBits)
           cv    == newCorrelationVector(f.correlationVector \o <<".">> \o s, 0, f.version)
       IN  frame' = [frame EXCEPT ![self] =
                        [@ EXCEPT !.pc = "done", !.mask = mask, !.value = value, !.s = s,
                                  !.built = TRUE, !.retVector = <<cv>>, !.retErr = Nil]]
    /\ UNCHANGED <<intBits, ValidateCorrelationVectorDuringCreation, defaultParameters,
                   randPos, calls>>

\* the rest of SpinWithParameters: pack, mask, format, newCorrelationVector, return
Pack(self) ==
    /\ frame[self].pc = "pack"
    /\ LET f     == frame[self]
           sp    == Deref(self)
           mask  == MaskOf(sp)
           value == MaskedValue(f.ticks, f.entropy, sp)
           s     == FormatValue(value, sp, intBits)
           cv    == newCorrelationVector(f.correlationVector \o <<".">> \o s, 0, f.version)
       IN  frame' = [frame EXCEPT ![self] =
                        [@ EXCEPT !.pc = "done", !.mask = mask, !.value = value, !.s = s,
                                  !.built = TRUE, !.retVector = <<cv>>, !.retErr = Nil]]
    /\ UNCHANGED <<intBits, ValidateCorrelationVectorDuringCreation, defaultParameters,
                   randPos, calls>>

\* the caller takes the result; the activation is gone
Return(self) ==
    /\ frame[self].pc = "done"
    /\ frame' = [frame EXCEPT ![self] = IdleFrame]
    /\ UNCHANGED <<intBits, ValidateCorrelationVectorDuringCreation, defaultParameters,
                   randPos, calls>>

\* one step of goroutine self: it enters a call with a base of bases and, for
\* SpinWithParameters, a struct of params, or continues the call it is in; the
\* clock shows a tick count of now
Step(self, bases, params, now) ==
    \/ \E cv \in bases : Spin(self, cv)
    \/ \E cv \in bases, p \in params : SpinWithParameters(self, cv, p)
    \/ InferVersion(self)
    \/ Validate(self)
    \/ ReadEntropy(self, EntropyBytes)
    \/ ReadClock(self, now)
    \/ Pack(self)
    \/ Return(self)

\* one goroutine, every base, every valid parameter combination
Next ==
    \/ \E b \in BOOLEAN : SetValidate(b)
    \/ Step(1, Bases, SpinParameters, Ticks)

Spec == Init /\ [][Next]_vars

\* the same on a build whose int is 64 bits wide, the clock set after 1970
NextAmd64 ==
    \/ \E b \in BOOLEAN : SetValidate(b)
    \/ Step(1, Bases, SpinParameters, {TicksShifted5, TicksLate})

InitAmd64 == Init /\ intBits = 64

SpecAmd64 == InitAmd64 /\ [][NextAmd64]_vars

\* two goroutines calling concurrently, their steps interleaved
ConcBases == {BaseOk, BaseNoVersion}
ConcParameters ==
    {[Interval |-> FineInterval, Periodicity |-> LongPeriodicity, Entropy |-> OneEntropy],
     DefaultParametersInit}
ConcTicks == {TicksShifted5, TicksLate}

NextConc ==
    \/ \E b \in BOOLEAN : SetValidate(b)
    \/ \E self \in Procs : Step(self, ConcBases, ConcParameters, ConcTicks)

SpecConc == Init /\ [][NextConc]_vars

-----------------------------------------------------------------------------
(* Vocabulary of the properties                                            *)

\* goroutine p holds the result of a finished call
Done(p) == frame[p].pc = "done"

\* ... and the call returned a vector
Succeeded(p) == Done(p) /\ frame[p].retErr = Nil /\ frame[p].retVector # <<>>

\* the string given to newCorrelationVector by the call whose result p holds
ResultString(p) == frame[p].retVector[1].str

HasPrefix(str, pre) == Len(str) >= Len(pre) /\ SubSeq(str, 1, Len(pre)) = pre

\* what follows baseCV + "." in the result string
SuffixOf(p) ==
    SubSeq(ResultString(p), Len(frame[p].correlationVector) + 2, Len(ResultString(p)))

RECURSIVE SplitDot(_, _, _)
\* the "."-separated fields of str[i..], cur being the field read so far
SplitDot(str, i, cur) ==
    IF i > Len(str) THEN <<cur>>
    ELSE IF str[i] = "." THEN <<cur>> \o SplitDot(str, i + 1, <<>>)
    ELSE SplitDot(str, i + 1, Append(cur, str[i]))

Fields(str) == SplitDot(str, 1, <<>>)

IsDigit(c) == \E d \in 1..10 : DigitChars[d] = c

\* a non-negative base-10 integer: digits only, no leading zero except a bare 0
IsDecimalField(f) ==
    /\ Len(f) >= 1
    /\ \A i \in 1..Len(f) : IsDigit(f[i])
    /\ Len(f) > 1 => f[1] # "0"

\* the uint64 with value n, for 0 <= n < 2^31
U64OfNat(n) ==
    <<0, 0, 0, 0, n \div 16777216, (n \div 65536) % 256, (n \div 256) % 256, n % 256>>

\* the low 32 bits of a uint64
Low32(x) == <<0, 0, 0, 0, x[5], x[6], x[7], x[8]>>

\* the string is baseCV, ".", then one or two well-formed decimal fields
WellFormedResult(p) ==
    /\ HasPrefix(ResultString(p), frame[p].correlationVector \o <<".">>)
    /\ LET fs == Fields(SuffixOf(p))
       IN  /\ Len(fs) \in {1, 2}
           /\ \A i \in 1..Len(fs) : IsDecimalField(fs[i])

-----------------------------------------------------------------------------
(* C1: every vector a call returns is baseCV, ".", then one or two          *)
(* "."-separated fields, each a non-negative base-10 integer with no "-"    *)
(* sign and no leading zero other than a bare 0.                            *)
C1_OutputWellFormed == \A p \in Procs : Succeeded(p) => WellFormedResult(p)

(* C2: when totalBits > 32 the suffix is <high>.<low>, <high> the decimal   *)
(* form of value >> 32 and <low> the decimal form of the low 32 bits of the *)
(* masked value.                                                            *)
C2_HighLowFields ==
    \A p \in Procs :
        (Succeeded(p) /\ totalBits(Deref(p)) > 32) =>
            SuffixOf(p) = FormatUint(Shr64(frame[p].value, 32)) \o <<".">>
                            \o FormatUint(Low32(frame[p].value))

\* the call of the example: Spin parameters {Coarse, Short, TwoEntropy} on "abc.1",
\* shifted tick count 5, entropy bytes 0x01 0x02
ExampleCall(p) ==
    /\ Succeeded(p)
    /\ frame[p].correlationVector = BaseOk
    /\ Deref(p) = [Interval |-> CoarseInterval, Periodicity |-> ShortPeriodicity,
                   Entropy |-> TwoEntropy]
    /\ Sar64(frame[p].ticks, 24) = U64OfNat(5)
    /\ frame[p].entropy = <<1, 2>>

(* C3 as stated: the example call packs 328706 and returns "abc.1.328706".  *)
C3_Example328706 ==
    \A p \in Procs :
        ExampleCall(p) =>
            /\ frame[p].value = U64OfNat(328706)
            /\ ResultString(p) = BaseOk \o <<".", "3", "2", "8", "7", "0", "6">>

(* C3 amended: the example call packs (5<<8|1)<<8|2 = 327938, the 32-bit    *)
(* mask leaves it unchanged, and the call returns "abc.1.327938".           *)
C3_Example327938 ==
    \A p \in Procs :
        ExampleCall(p) =>
            /\ PackValue(frame[p].ticks, frame[p].entropy, Deref(p)) = U64OfNat(327938)
            /\ totalBits(Deref(p)) = 32
            /\ frame[p].value = U64OfNat(327938)
            /\ ResultString(p) = BaseOk \o <<".", "3", "2", "7", "9", "3", "8">>

C3_Witness == \E p \in Procs : ExampleCall(p)

(* C4: the suffix after baseCV + "." has exactly one field when            *)
(* totalBits <= 32 and exactly two, separated by one ".", when              *)
(* totalBits > 32; never more than two.                                     *)
C4_FieldCount ==
    \A p \in Procs :
        Succeeded(p) =>
            /\ HasPrefix(ResultString(p), frame[p].correlationVector \o <<".">>)
            /\ Len(Fields(SuffixOf(p))) = IF totalBits(Deref(p)) <= 32 THEN 1 ELSE 2
            /\ \A i \in 1..Len(Fields(SuffixOf(p))) : Fields(SuffixOf(p))[i] # <<>>

\* a call at the boundary, totalBits = 32, has returned one field
C4_Witness ==
    \E p \in Procs :
        /\ Succeeded(p)
        /\ totalBits(Deref(p)) = 32
        /\ Len(Fields(SuffixOf(p))) = 1

\* byte i (1 = most significant) of 2^n - 1 as a uint64, for 0 <= n <= 64
LowOnesByte(n, i) ==
    LET lo == 8 * (8 - i)      \* weight of the byte's lowest bit
    IN  IF n >= lo + 8 THEN 255
        ELSE IF n <= lo THEN 0
        ELSE (2 ^ (n - lo)) - 1

(* C5: the mask is 2^totalBits - 1 as a uint64, all ones at totalBits = 64; *)
(* so the masked value is below 2^totalBits and, at totalBits = 64, is the  *)
(* packed value itself.                                                     *)
C5_Mask ==
    \A p \in Procs :
        Succeeded(p) =>
            LET f == frame[p]
                n == totalBits(Deref(p))
            IN  /\ n \in 0..64
                /\ \A i \in 1..8 : f.mask[i] = LowOnesByte(n, i)
                /\ \A i \in 1..8 : f.value[i] <= LowOnesByte(n, i)
                /\ n = 64 => /\ f.mask = <<255, 255, 255, 255, 255, 255, 255, 255>>
                             /\ f.value = PackValue(f.ticks, f.entropy, Deref(p))

\* a call with totalBits = 64 whose packed value has its top bit set has returned
C5_Witness ==
    \E p \in Procs :
        /\ Succeeded(p)
        /\ totalBits(Deref(p)) = 64
        /\ frame[p].value[1] >= 128

\* a base whose version is inferred and which validate rejects
FailsOnlyValidation(cv) ==
    /\ inferVersion(cv).err = Nil
    /\ validate(cv, inferVersion(cv).version) # Nil

(* C6: for a base that passes inferVersion and fails validate, the call     *)
(* returns a vector and a nil error when the flag is false, and validate's  *)
(* error and a nil vector when it is true; validate is not invoked while    *)
(* the flag is false.                                                       *)
C6_ValidationGating ==
    \A p \in Procs :
        /\ frame[p].validated => ValidateCorrelationVectorDuringCreation
        /\ (Done(p) /\ FailsOnlyValidation(frame[p].correlationVector)) =>
              IF ValidateCorrelationVectorDuringCreation
              THEN /\ frame[p].retErr = validate(frame[p].correlationVector, frame[p].version)
                   /\ frame[p].retVector = <<>>
                   /\ frame[p].validated
              ELSE /\ frame[p].retErr = Nil
                   /\ frame[p].retVector # <<>>
                   /\ HasPrefix(ResultString(p), frame[p].correlationVector \o <<".">>)
                   /\ ~frame[p].validated

\* with the flag off, a call on a base validate rejects has returned a vector
C6_Witness ==
    \E p \in Procs :
        /\ Done(p)
        /\ FailsOnlyValidation(frame[p].correlationVector)
        /\ ~ValidateCorrelationVectorDuringCreation
        /\ frame[p].retVector # <<>>

(* C7: a call returns either a vector and a nil error or a nil vector and   *)
(* an error; an error exactly when inferVersion fails or the flag is on and *)
(* validate fails; and a call that returns an error has read no clock,      *)
(* drawn no random byte (the random source is where the call found it),     *)
(* built no vector and left the flag as it was.                             *)
C7_ErrorsHaveNoEffects ==
    \A p \in Procs :
        Done(p) =>
            LET f    == frame[p]
                inf  == inferVersion(f.correlationVector)
                fail == \/ inf.err # Nil
                        \/ /\ f.flag0
                           /\ validate(f.correlationVector, inf.version) # Nil
            IN  /\ (f.retVector # <<>>) # (f.retErr # Nil)
                /\ (f.retErr # Nil) <=> fail
                /\ ValidateCorrelationVectorDuringCreation = f.flag0
                /\ f.retErr # Nil =>
                      /\ ~f.clockRead
                      /\ f.drawn = 0
                      /\ randPos = f.randPos0
                      /\ ~f.built
                      /\ defaultParameters = DefaultParametersInit

\* a second call has returned an error after a first call drew random bytes
C7_Witness ==
    \E p \in Procs :
        /\ Done(p)
        /\ frame[p].retErr # Nil
        /\ frame[p].retVector = <<>>
        /\ randPos > 0

\* what decides a call: base, parameters, flag read, tick count read, bytes drawn
CallInputs(p) ==
    <<frame[p].correlationVector, Deref(p), frame[p].flagRead, frame[p].ticks,
      frame[p].entropy>>

\* what a call returns: the error, and the vector's string if there is one
CallOutcome(p) ==
    <<frame[p].retErr, IF frame[p].retVector = <<>> THEN <<>> ELSE ResultString(p)>>

(* C8: two calls that got the same base, parameters, flag value, tick count *)
(* and entropy bytes return the same outcome, however their steps were      *)
(* interleaved and whatever ran before them.                                *)
C8_Deterministic ==
    \A p, q \in Procs :
        (Done(p) /\ Done(q) /\ CallInputs(p) = CallInputs(q)) =>
            CallOutcome(p) = CallOutcome(q)

\* two goroutines hold vectors of calls with equal inputs that drew entropy,
\* the second to draw having drawn before the first formatted its value
C8_Witness ==
    /\ Succeeded(1) /\ Succeeded(2)
    /\ CallInputs(1) = CallInputs(2)
    /\ frame[1].drawn > 0
    /\ frame[1].randPos0 = frame[2].randPos0

(* C9: defaultParameters stays {Coarse, Short, TwoEntropy}; a call made     *)
(* through Spin, after whatever calls, returns what SpinWithParameters      *)
(* returns for that struct: 24 tick bits dropped, totalBits = 32, one field.*)
C9_SpinUsesDefaults ==
    /\ defaultParameters = [Interval |-> CoarseInterval, Periodicity |-> ShortPeriodicity,
                            Entropy |-> TwoEntropy]
    /\ \A p \in Procs :
          (Done(p) /\ frame[p].viaSpin /\ frame[p].retErr = Nil) =>
              LET f == frame[p]
              IN  /\ f.parameters = "default"
                  /\ Len(f.entropy) = 2
                  /\ f.drawn = 2
                  /\ f.value = <<0, 0, 0, 0, f.ticks[4], f.ticks[5],
                                 f.entropy[1], f.entropy[2]>>
                  /\ Len(Fields(SuffixOf(p))) = 1
                  /\ ResultString(p) =
                        f.correlationVector \o <<".">>
                          \o Itoa(IntOfU64(f.value, intBits))

\* a call through Spin has returned a vector after an earlier call with other parameters
C9_Witness ==
    \E p \in Procs :
        /\ Succeeded(p)
        /\ frame[p].viaSpin
        /\ calls = MaxCalls
        /\ randPos > 2

\* byte i (1 = most significant) of the value the packing is to produce:
\* the entropy bytes lowest, first drawn byte highest among them, above them
\* the low periodicity bits of ticks >> drop, zero above
ExpectedByte(ticks, entropy, sp, i) ==
    LET j    == 8 - i                        \* byte index counted from the low end
        e    == sp.Entropy
        drop == IF sp.Interval = FineInterval THEN 16 ELSE 24
        bits == CASE sp.Periodicity = NoPeriodicity     -> 0
                  [] sp.Periodicity = ShortPeriodicity  -> 16
                  [] sp.Periodicity = MediumPeriodicity -> 24
                  [] sp.Periodicity = LongPeriodicity   -> 32
    IN  IF j < e THEN entropy[e - j]
        ELSE IF j < e + (bits \div 8) THEN ticks[8 - (j - e + (drop \div 8))]
        ELSE 0

(* C10: the masked value has the entropy bytes as its low 8*Entropy bits,   *)
(* first drawn byte most significant, above them the low periodicity bits   *)
(* of the tick count shifted right by 24 (Coarse and any other Interval) or *)
(* 16 (Fine), and nothing above.                                            *)
C10_PackedLayout ==
    \A p \in Procs :
        Succeeded(p) =>
            /\ Len(frame[p].entropy) = Deref(p).Entropy
            /\ \A i \in 1..8 :
                  frame[p].value[i] =
                      ExpectedByte(frame[p].ticks, frame[p].entropy, Deref(p), i)

\* a call whose left shifts overflow 64 bits (38 tick bits, then 32 entropy bits)
\* has returned
C10_Witness ==
    \E p \in Procs :
        /\ Succeeded(p)
        /\ Deref(p).Interval = FineInterval
        /\ Deref(p).Periodicity = LongPeriodicity
        /\ Deref(p).Entropy = FourEntropy
        /\ frame[p].ticks = TicksLate

=============================================================================
